---- MODULE Spec2Model ----
(***************************************************************************)
(* Model of backend/app.py: the process-wide selection and vector index,   *)
(* the /select_docs build handler, the /query answer handler and the       *)
(* session handlers (/login, /oauth2callback, /logout).                    *)
(*                                                                         *)
(* Strings are modelled by what the handlers observe of them: a text is    *)
(* [lead, core, marker] = lead whitespace characters followed by core      *)
(* non-blank characters, marker telling whether "I don't know" occurs in   *)
(* it; a fixed message is [fixed |-> "..."].                               *)
(***************************************************************************)
EXTENDS Integers, Sequences, FiniteSets, TLC

VARIABLES GEMINI_API_KEY, embeddings, llm, vectorstore, selected_docs,
          credentials, lastOp, inp, out,
          heap, builder, reader

\* the index objects on the heap and the request threads' positions and
\* locals; they move only where requests are handled by concurrent threads
threads == <<heap, builder, reader>>

vars == <<GEMINI_API_KEY, embeddings, llm, vectorstore, selected_docs,
          credentials, lastOp, inp, out, heap, builder, reader>>

\* ------------------------------------------------------------------ bounds
\* longest list of doc_ids a /select_docs request submits
MaxSel == 2

\* the threshold of the relevance check, len(result_text.strip()) < 50
MinAnswerLen == 50

\* ------------------------------------------------------------------- texts
None == [tag |-> "None"]

Text(l, c, m) == [lead |-> l, core |-> c, marker |-> m]

Fixed(s) == [fixed |-> s]

EmptyText == Text(0, 0, FALSE)

\* len(s)
StrLen(t) == t.lead + t.core

\* s.strip()
Strip(t) == [t EXCEPT !.lead = 0]

\* bool(s): a Python string is true when it is not empty
Truthy(t) == StrLen(t) > 0

\* -------------------------------------------------- the document store
\* The files of the user's Drive that the form lists, by id.  fetch is what
\* the Drive/Docs API call does, parse what the extractor does with the
\* bytes, raw the text in the file.
DocIds == {1, 2, 3, 4, 5, 6}

GDOC == "application/vnd.google-apps.document"
PLAIN == "text/plain"
PDF == "application/pdf"
SLIDES == "application/vnd.google-apps.presentation"
PPTX == "application/vnd.openxmlformats-officedocument.presentationml.presentation"
PPT == "application/vnd.ms-powerpoint"
SHEET == "application/vnd.google-apps.spreadsheet"

Drive(d) ==
    CASE d = 1 -> [mime |-> GDOC, fetch |-> "ok", parse |-> "ok", raw |-> Text(1, 3, FALSE)]
      [] d = 2 -> [mime |-> PDF, fetch |-> "ok", parse |-> "ok", raw |-> Text(1, 2, FALSE)]
      [] d = 3 -> [mime |-> PLAIN, fetch |-> "ok", parse |-> "ok", raw |-> Text(2, 0, FALSE)]
      [] d = 4 -> [mime |-> PPTX, fetch |-> "raise", parse |-> "ok", raw |-> Text(0, 4, FALSE)]
      [] d = 5 -> [mime |-> SHEET, fetch |-> "ok", parse |-> "ok", raw |-> Text(0, 5, FALSE)]
      [] d = 6 -> [mime |-> PDF, fetch |-> "ok", parse |-> "fail", raw |-> Text(0, 6, FALSE)]

\* request.form.getlist('doc_ids'): the ids of the boxes ticked in the form
Selections ==
    { s \in UNION { [1..n -> DocIds] : n \in 0..MaxSel } :
        \A i, j \in DOMAIN s : s[i] = s[j] => i = j }

\* ------------------------------------------------------------ extractors
\* extract_text_from_pdf / extract_text_from_pptx: the stripped text, or ""
\* when the parser raises
extract_text_stripped(f) ==
    IF f.parse = "fail" THEN EmptyText ELSE Strip(f.raw)

\* extract_text_from_doc: the runs' contents concatenated, not stripped
extract_text_from_doc(f) == f.raw

\* The body of the loop over selected_ids for one document: kept tells
\* whether a Document was appended, content is its page_content.
Skip == [kept |-> FALSE, content |-> EmptyText]

AppendDocument(content) ==
    IF Truthy(Strip(content))
    THEN [kept |-> TRUE, content |-> content]
    ELSE Skip

ProcessDocument(d) ==
    LET f == Drive(d) IN
    IF f.fetch = "raise" THEN Skip
    ELSE IF f.mime = GDOC THEN AppendDocument(extract_text_from_doc(f))
    ELSE IF f.mime = PLAIN THEN
        IF f.parse = "fail" THEN Skip ELSE AppendDocument(f.raw)
    ELSE IF f.mime = PDF THEN
        LET content == extract_text_stripped(f) IN
        IF ~Truthy(content) THEN Skip ELSE AppendDocument(content)
    ELSE IF f.mime = SLIDES THEN
        LET content == extract_text_stripped(f) IN
        IF ~Truthy(content) THEN Skip ELSE AppendDocument(content)
    ELSE IF f.mime \in {PPTX, PPT} THEN
        LET content == extract_text_stripped(f) IN
        IF ~Truthy(content) THEN Skip ELSE AppendDocument(content)
    ELSE Skip

\* the loop without its try/except and continue: the first document that
\* is not kept ends the batch
RECURSIVE ProcessDocumentsAborting(_)
ProcessDocumentsAborting(ids) ==
    IF ids = <<>> THEN <<>>
    ELSE LET r == ProcessDocument(Head(ids)) IN
         IF r.kept
         THEN <<[source |-> Head(ids), page_content |-> r.content]>>
              \o ProcessDocumentsAborting(Tail(ids))
         ELSE <<>>

\* documents, as the loop of select_docs leaves it: one Document per
\* selected id that was kept, in the order of selected_ids
RECURSIVE ProcessDocuments(_)
ProcessDocuments(ids) ==
    IF ids = <<>> THEN <<>>
    ELSE LET r == ProcessDocument(Head(ids)) IN
         (IF r.kept
          THEN <<[source |-> Head(ids), page_content |-> r.content]>>
          ELSE <<>>) \o ProcessDocuments(Tail(ids))

\* CharacterTextSplitter(chunk_size=1000, chunk_overlap=0).split_documents:
\* every text here is shorter than one chunk, so each Document gives one
\* chunk, its text stripped, carrying the Document's metadata
split_documents(documents) ==
    [i \in DOMAIN documents |->
        [source |-> documents[i].source,
         text |-> Strip(documents[i].page_content)]]

\* FAISS.from_documents(docs, embeddings)
FAISS(docs) == [tag |-> "FAISS", docs |-> docs]

\* the step with vectorstore reset before the embedding call
BuildIndexResetting(old, documents, embedOk) ==
    IF documents # <<>>
    THEN IF embedOk
         THEN [vectorstore |-> FAISS(split_documents(documents)),
               status |-> "built"]
         ELSE [vectorstore |-> None, status |-> "embed_failed"]
    ELSE [vectorstore |-> None, status |-> "empty_corpus"]

\* the step without the reset of vectorstore in its else arm
BuildIndexKeeping(old, documents, embedOk) ==
    IF documents # <<>>
    THEN IF embedOk
         THEN [vectorstore |-> FAISS(split_documents(documents)),
               status |-> "built"]
         ELSE [vectorstore |-> old, status |-> "embed_failed"]
    ELSE [vectorstore |-> old, status |-> "empty_corpus"]

\* The "Split and embed" step of select_docs.  raised: the embedding call
\* threw before vectorstore was assigned.
BuildIndex(old, documents, embedOk) ==
    IF documents # <<>>
    THEN IF embedOk
         THEN [vectorstore |-> FAISS(split_documents(documents)),
               status |-> "built"]
         ELSE [vectorstore |-> old, status |-> "embed_failed"]
    ELSE [vectorstore |-> None, status |-> "empty_corpus"]

\* the response of select_docs for each way it ends
SelectResponse(status) ==
    CASE status = "empty_corpus" ->
           Fixed("Error: No documents could be processed. Please check that the selected documents are accessible and properly formatted.")
      [] status \in {"embed_failed", "no_credentials"} ->
           Fixed("An error occurred while selecting documents: ...")
      [] OTHER -> Fixed("redirect:/chat")

\* select_docs: the new globals, how the call ended, and the corpus that
\* was handed to the text splitter (looped tells whether the loop ran)
select_docs(vs, emb, lm, creds, selected_ids, embedOk) ==
    IF selected_ids # <<>> /\ emb /\ lm
    THEN IF ~creds
         THEN [selected_docs |-> selected_ids, vectorstore |-> vs,
               status |-> "no_credentials", looped |-> FALSE,
               documents |-> <<>>]
         ELSE LET documents == ProcessDocuments(selected_ids)
                  b == BuildIndex(vs, documents, embedOk)
              IN [selected_docs |-> selected_ids,
                  vectorstore |-> b.vectorstore,
                  status |-> b.status, looped |-> TRUE,
                  documents |-> documents]
    ELSE IF selected_ids # <<>>
    THEN [selected_docs |-> selected_ids, vectorstore |-> None,
          status |-> "no_services", looped |-> FALSE, documents |-> <<>>]
    ELSE [selected_docs |-> selected_ids, vectorstore |-> vs,
          status |-> "no_selection", looped |-> FALSE, documents |-> <<>>]

\* ----------------------------------------------------------------- query
\* What an external call does: it raises, or it returns a text.
Raised == [raised |-> TRUE]

Returned(t) == [raised |-> FALSE, text |-> t]

\* the answers qa_chain.invoke can give: around the threshold, with and
\* without leading whitespace, with and without the marker
ResultTexts ==
    [lead : 0..1, core : {MinAnswerLen - 1, MinAnswerLen}, marker : BOOLEAN]

RetrievalOutcomes == {Raised} \cup {Returned(t) : t \in ResultTexts}

\* model.generate_content(query): it raises, or response.text
GenerationOutcomes == {Raised, Returned(Text(1, 7, FALSE))}

NOT_CONFIGURED == Fixed("Gemini API key is not configured. Please set the GEMINI_API_KEY environment variable to enable RAG functionality with Gemini.")
APOLOGY == "I couldn't find the answer in your selected documents. However, based on general knowledge: "
NOT_INITIALIZED == "Documents are selected (n docs) but the RAG pipeline couldn't be initialized."
NOT_READY == "Documents selected but vectorstore not ready. Falling back to general knowledge: "
NO_DOCS == "No documents selected. Using general knowledge: "
NO_DOCS_NO_KEY == Fixed("No documents selected and Gemini API key not configured.")
ERROR_OCCURRED == "An error occurred: "

\* a response made of a fixed prefix and a text that follows it
Message(prefix, body) == [prefix |-> prefix, body |-> body]

\* generate_general_response(query)
generate_general_response(key, g) ==
    IF ~key
    THEN Fixed("Gemini API key not set. Cannot generate general response.")
    ELSE IF g.raised
    THEN Fixed("Error generating general response.")
    ELSE Strip(g.text)

\* the relevance check measuring the text as returned, not stripped
LowConfidenceUnstripped(result_text) ==
    result_text.marker \/ StrLen(result_text) < MinAnswerLen

\* the relevance check with <= for <
LowConfidenceInclusive(result_text) ==
    result_text.marker \/ StrLen(Strip(result_text)) <= MinAnswerLen

\* the relevance check of query: "I don't know" in result_text or
\* len(result_text.strip()) < 50
LowConfidence(result_text) ==
    result_text.marker \/ StrLen(Strip(result_text)) < MinAnswerLen

\* the chain with the key test after the tests of the index and selection
RouteKeyLast(key, vs, lm, sel) ==
    IF vs # None /\ lm THEN "rag"
    ELSE IF sel # <<>> /\ vs = None THEN "not_initialized"
    ELSE IF sel # <<>> THEN "not_ready"
    ELSE IF ~key THEN "no_key"
    ELSE "general"

\* which arm of the if/elif chain of query is taken
Route(key, vs, lm, sel) ==
    IF ~key THEN "no_key"
    ELSE IF vs # None /\ lm THEN "rag"
    ELSE IF sel # <<>> /\ vs = None THEN "not_initialized"
    ELSE IF sel # <<>> THEN "not_ready"
    ELSE IF key THEN "general"
    ELSE "no_docs_no_key"

\* The try block of query.  raised: an exception left the block;
\* otherwise response is what was assigned.  general and retrieval count
\* the calls of generate_general_response and of qa_chain.invoke.
QueryBody(key, vs, lm, sel, wellFormed, r, g) ==
    LET route == Route(key, vs, lm, sel)
        general == generate_general_response(key, g)
    IN
    IF ~wellFormed
    THEN [raised |-> TRUE, response |-> None, general |-> 0, retrieval |-> 0]
    ELSE CASE route = "no_key" ->
                [raised |-> FALSE, response |-> NOT_CONFIGURED,
                 general |-> 0, retrieval |-> 0]
           [] route = "rag" ->
                IF r.raised
                THEN [raised |-> TRUE, response |-> None,
                      general |-> 0, retrieval |-> 1]
                ELSE IF LowConfidence(r.text)
                THEN [raised |-> FALSE, response |-> Message(APOLOGY, general),
                      general |-> 1, retrieval |-> 1]
                ELSE [raised |-> FALSE, response |-> r.text,
                      general |-> 0, retrieval |-> 1]
           [] route = "not_initialized" ->
                [raised |-> FALSE, response |-> Fixed(NOT_INITIALIZED),
                 general |-> 0, retrieval |-> 0]
           [] route = "not_ready" ->
                [raised |-> FALSE, response |-> Message(NOT_READY, general),
                 general |-> 1, retrieval |-> 0]
           [] route = "general" ->
                [raised |-> FALSE, response |-> Message(NO_DOCS, general),
                 general |-> 1, retrieval |-> 0]
           [] OTHER ->
                [raised |-> FALSE, response |-> NO_DOCS_NO_KEY,
                 general |-> 0, retrieval |-> 0]

\* query without its except clause
queryUncaught(key, vs, lm, sel, wellFormed, r, g) ==
    LET b == QueryBody(key, vs, lm, sel, wellFormed, r, g) IN
    [threw |-> b.raised, route |-> Route(key, vs, lm, sel),
     response |-> b.response,
     general |-> b.general, retrieval |-> b.retrieval]

\* query: the try block and its except clause.  threw: an exception
\* reached the caller instead of a response.
query(key, vs, lm, sel, wellFormed, r, g) ==
    LET b == QueryBody(key, vs, lm, sel, wellFormed, r, g) IN
    IF b.raised
    THEN [threw |-> FALSE, route |-> "error",
          response |-> Message(ERROR_OCCURRED, Fixed("str(e)")),
          general |-> b.general, retrieval |-> b.retrieval]
    ELSE [threw |-> FALSE, route |-> Route(key, vs, lm, sel),
          response |-> b.response,
          general |-> b.general, retrieval |-> b.retrieval]

\* --------------------------------------------------------------- actions
NoInput == [none |-> TRUE]

\* no request is being handled
BuilderIdle == [pc |-> "idle", documents |-> <<>>, id |-> 0]

ReaderIdle ==
    [pc |-> "idle", seen |-> NoInput, hold |-> NoInput, vs429 |-> NoInput,
     sel429 |-> NoInput, sel431 |-> NoInput, retrieved |-> NoInput,
     route |-> "none"]

Readers == {1, 2}

ThreadsIdle ==
    /\ heap = <<>>
    /\ builder = BuilderIdle
    /\ reader = [r \in Readers |-> ReaderIdle]

\* module initialization: with a key both services are created, or the
\* creation failed and both are None; without a key both are None
Init ==
    /\ ThreadsIdle
    /\ GEMINI_API_KEY \in BOOLEAN
    /\ embeddings \in BOOLEAN
    /\ llm = embeddings
    /\ embeddings => GEMINI_API_KEY
    /\ vectorstore = None
    /\ selected_docs = <<>>
    /\ credentials = FALSE
    /\ lastOp = "init"
    /\ inp = NoInput
    /\ out = NoInput

\* GET /login: session.clear(), then the redirect to the consent screen
Login ==
    /\ credentials' = FALSE
    /\ lastOp' = "login"
    /\ inp' = NoInput
    /\ out' = NoInput
    /\ UNCHANGED <<GEMINI_API_KEY, embeddings, llm, vectorstore, selected_docs>>
    /\ UNCHANGED threads

\* GET /oauth2callback with a code: the credentials are put in the session
OAuth2Callback ==
    /\ credentials' = TRUE
    /\ lastOp' = "oauth2callback"
    /\ inp' = NoInput
    /\ out' = NoInput
    /\ UNCHANGED <<GEMINI_API_KEY, embeddings, llm, vectorstore, selected_docs>>
    /\ UNCHANGED threads

\* GET /logout: session.clear()
Logout ==
    /\ credentials' = FALSE
    /\ lastOp' = "logout"
    /\ inp' = NoInput
    /\ out' = NoInput
    /\ UNCHANGED <<GEMINI_API_KEY, embeddings, llm, vectorstore, selected_docs>>
    /\ UNCHANGED threads

\* POST /select_docs
SelectDocs ==
    \E selected_ids \in Selections, embedOk \in BOOLEAN :
        \E r \in {select_docs(vectorstore, embeddings, llm, credentials,
                              selected_ids, embedOk)} :
           \* the embedding call has an outcome only when it is made
           /\ r.status \notin {"built", "embed_failed"} => embedOk
           /\ selected_docs' = r.selected_docs
           /\ vectorstore' = r.vectorstore
           /\ lastOp' = "select_docs"
           /\ inp' = [selected_ids |-> selected_ids, before |-> vectorstore]
           /\ out' = [status |-> r.status, looped |-> r.looped,
                      documents |-> r.documents,
                      response |-> SelectResponse(r.status)]
           /\ UNCHANGED <<GEMINI_API_KEY, embeddings, llm, credentials>>
           /\ UNCHANGED threads

\* POST /query
Query ==
    \E wellFormed \in BOOLEAN, r \in RetrievalOutcomes, g \in GenerationOutcomes :
        \E q \in {query(GEMINI_API_KEY, vectorstore, llm, selected_docs,
                        wellFormed, r, g)} :
           \* an external call has an outcome only when it is made
           /\ q.retrieval = 0 => r = Raised
           /\ q.general = 0 => g = Raised
           /\ lastOp' = "query"
           /\ inp' = [wellFormed |-> wellFormed,
                      result |-> IF q.retrieval = 1 THEN r ELSE NoInput,
                      generated |-> IF q.general = 1 THEN g ELSE NoInput]
           /\ out' = q
           /\ UNCHANGED <<GEMINI_API_KEY, embeddings, llm, vectorstore,
                          selected_docs, credentials>>
           /\ UNCHANGED threads

Next == Login \/ OAuth2Callback \/ Logout \/ SelectDocs \/ Query

Spec == Init /\ [][Next]_vars

\* ------------------------------------------------- concurrent requests
\* app.run serves each request on a thread of its own, so the handlers
\* interleave at their reads and writes of the globals.  vectorstore holds
\* a reference to an index object on the heap; target is what
\* FAISS.from_documents was given, docs what the object holds so far.

\* most index objects built in a run
MaxBuilds == 2

Ref(id) == [tag |-> "FAISS", id |-> id]

Complete(o) == o.docs = o.target

\* the submissions of the concurrent runs: none, one document, a
\* whitespace-only document, two documents
ConcurrentSelections == {<<>>, <<1>>, <<3>>, <<1, 2>>}

\* an arm that builds whenever documents are selected
SelectArmUnguarded(selected_ids, emb, lm) ==
    IF selected_ids # <<>> THEN "build" ELSE "skip"

\* the arm of select_docs a submission takes
SelectArm(selected_ids, emb, lm) ==
    IF selected_ids # <<>> /\ emb /\ lm THEN "build"
    ELSE IF selected_ids # <<>> THEN "reset"
    ELSE "skip"

\* the global bound to the object before from_documents has returned
GlobalDuringBuildEarly(vs, ref) == ref

\* vectorstore = FAISS.from_documents(...): while the call runs the global
\* keeps its value; the name is bound when the call has returned
GlobalDuringBuild(vs, ref) == vs

\* select_docs up to the end of the loop: selected_docs is assigned, the
\* arm is chosen and the documents are extracted
BeginSelect ==
    /\ builder.pc = "idle"
    /\ credentials
    /\ \E selected_ids \in ConcurrentSelections :
         \E arm \in {SelectArm(selected_ids, embeddings, llm)} :
            /\ arm = "build" => Len(heap) < MaxBuilds
            /\ selected_docs' = selected_ids
            /\ builder' =
                 CASE arm = "build" ->
                        [pc |-> "split",
                         documents |-> ProcessDocuments(selected_ids),
                         id |-> 0]
                   [] arm = "reset" -> [BuilderIdle EXCEPT !.pc = "reset"]
                   [] OTHER -> BuilderIdle
    /\ UNCHANGED <<GEMINI_API_KEY, embeddings, llm, vectorstore, credentials,
                   lastOp, inp, out, heap, reader>>

\* elif selected_ids: vectorstore = None
ResetIndex ==
    /\ builder.pc = "reset"
    /\ vectorstore' = None
    /\ builder' = BuilderIdle
    /\ UNCHANGED <<GEMINI_API_KEY, embeddings, llm, selected_docs, credentials,
                   lastOp, inp, out, heap, reader>>

\* if documents: the chunks are split and from_documents starts on a new
\* object; else: vectorstore = None and the error is returned
StartBuild ==
    /\ builder.pc = "split"
    /\ IF builder.documents # <<>>
       THEN /\ heap' = Append(heap,
                         [target |-> split_documents(builder.documents),
                          docs |-> <<>>])
            /\ builder' = [builder EXCEPT !.pc = "embedding",
                                          !.id = Len(heap) + 1]
            /\ vectorstore' = GlobalDuringBuild(vectorstore, Ref(Len(heap) + 1))
       ELSE /\ vectorstore' = None
            /\ builder' = BuilderIdle
            /\ heap' = heap
    /\ UNCHANGED <<GEMINI_API_KEY, embeddings, llm, selected_docs, credentials,
                   lastOp, inp, out, reader>>

\* from_documents embeds the next chunk and adds it to the new object
EmbedChunk ==
    /\ builder.pc = "embedding"
    /\ ~Complete(heap[builder.id])
    /\ heap' = [heap EXCEPT ![builder.id].docs =
                   Append(@, heap[builder.id].target[Len(@) + 1])]
    /\ vectorstore' = GlobalDuringBuild(vectorstore, Ref(builder.id))
    /\ UNCHANGED <<GEMINI_API_KEY, embeddings, llm, selected_docs, credentials,
                   lastOp, inp, out, builder, reader>>

\* the embedding provider raises: the except clause of select_docs returns
\* the error, the object under construction is dropped
EmbedFails ==
    /\ builder.pc = "embedding"
    /\ ~Complete(heap[builder.id])
    /\ builder' = BuilderIdle
    /\ UNCHANGED <<GEMINI_API_KEY, embeddings, llm, vectorstore, selected_docs,
                   credentials, lastOp, inp, out, heap, reader>>

\* from_documents has returned: vectorstore is bound to the new object
Publish ==
    /\ builder.pc = "embedding"
    /\ Complete(heap[builder.id])
    /\ vectorstore' = Ref(builder.id)
    /\ builder' = BuilderIdle
    /\ UNCHANGED <<GEMINI_API_KEY, embeddings, llm, selected_docs, credentials,
                   lastOp, inp, out, heap, reader>>

\* query, lines 410-412: the key test and the first read of vectorstore
QueryTest(r) ==
    /\ reader[r].pc = "idle"
    /\ reader' = [reader EXCEPT ![r] =
         IF ~GEMINI_API_KEY
         THEN [ReaderIdle EXCEPT !.pc = "done", !.route = "no_key"]
         ELSE IF vectorstore # None /\ llm
         THEN [ReaderIdle EXCEPT !.pc = "retriever", !.seen = vectorstore]
         ELSE [ReaderIdle EXCEPT !.pc = "test429", !.seen = vectorstore]]
    /\ UNCHANGED <<GEMINI_API_KEY, embeddings, llm, vectorstore, selected_docs,
                   credentials, lastOp, inp, out, heap, builder>>

\* line 414: vectorstore.as_retriever() reads the global again; on None
\* the AttributeError goes to the except clause
QueryRetriever(r) ==
    /\ reader[r].pc = "retriever"
    /\ reader' = [reader EXCEPT ![r] =
         IF vectorstore = None
         THEN [@ EXCEPT !.pc = "done", !.route = "error"]
         ELSE [@ EXCEPT !.pc = "invoke", !.hold = vectorstore]]
    /\ UNCHANGED <<GEMINI_API_KEY, embeddings, llm, vectorstore, selected_docs,
                   credentials, lastOp, inp, out, heap, builder>>

\* lines 415-428: the chain searches the object its retriever holds
QueryInvoke(r) ==
    /\ reader[r].pc = "invoke"
    /\ reader' = [reader EXCEPT ![r] =
         [@ EXCEPT !.pc = "done", !.route = "rag",
                   !.retrieved = heap[reader[r].hold.id].docs]]
    /\ UNCHANGED <<GEMINI_API_KEY, embeddings, llm, vectorstore, selected_docs,
                   credentials, lastOp, inp, out, heap, builder>>

\* line 429: elif selected_docs and not vectorstore
QueryTest429(r) ==
    /\ reader[r].pc = "test429"
    /\ reader' = [reader EXCEPT ![r] =
         IF selected_docs # <<>> /\ vectorstore = None
         THEN [@ EXCEPT !.pc = "done", !.route = "not_initialized",
                        !.vs429 = vectorstore, !.sel429 = selected_docs]
         ELSE [@ EXCEPT !.pc = "test431",
                        !.vs429 = vectorstore, !.sel429 = selected_docs]]
    /\ UNCHANGED <<GEMINI_API_KEY, embeddings, llm, vectorstore, selected_docs,
                   credentials, lastOp, inp, out, heap, builder>>

\* lines 431-437: elif selected_docs, else
QueryTest431(r) ==
    /\ reader[r].pc = "test431"
    /\ reader' = [reader EXCEPT ![r] =
         [@ EXCEPT !.pc = "done", !.sel431 = selected_docs,
                   !.route = IF selected_docs # <<>> THEN "not_ready"
                             ELSE "general"]]
    /\ UNCHANGED <<GEMINI_API_KEY, embeddings, llm, vectorstore, selected_docs,
                   credentials, lastOp, inp, out, heap, builder>>

\* line 440: the response is returned and the thread ends
QueryReturn(r) ==
    /\ reader[r].pc = "done"
    /\ reader' = [reader EXCEPT ![r] = ReaderIdle]
    /\ UNCHANGED <<GEMINI_API_KEY, embeddings, llm, vectorstore, selected_docs,
                   credentials, lastOp, inp, out, heap, builder>>

\* the user is logged in; the globals are as module initialization left them
InitConcurrent ==
    /\ GEMINI_API_KEY \in BOOLEAN
    /\ embeddings \in BOOLEAN
    /\ llm = embeddings
    /\ embeddings => GEMINI_API_KEY
    /\ vectorstore = None
    /\ selected_docs = <<>>
    /\ credentials = TRUE
    /\ lastOp = "init"
    /\ inp = NoInput
    /\ out = NoInput
    /\ ThreadsIdle

NextConcurrent ==
    \/ BeginSelect
    \/ ResetIndex
    \/ StartBuild
    \/ EmbedChunk
    \/ EmbedFails
    \/ Publish
    \/ \E r \in Readers : QueryTest(r)
    \/ \E r \in Readers : QueryRetriever(r)
    \/ \E r \in Readers : QueryInvoke(r)
    \/ \E r \in Readers : QueryTest429(r)
    \/ \E r \in Readers : QueryTest431(r)
    \/ \E r \in Readers : QueryReturn(r)

SpecConcurrent == InitConcurrent /\ [][NextConcurrent]_vars

\* ---------------------------------------------------------------- claims
\* A query is a /query request that carries a query string; a request
\* without one gets the "An error occurred" response of the except clause.
Answered == lastOp = "query" /\ inp.wellFormed

Selected == lastOp = "select_docs"

\* what the general-knowledge answerer answered in the last query
GeneralAnswer ==
    IF inp.generated.raised
    THEN Fixed("Error generating general response.")
    ELSE [inp.generated.text EXCEPT !.lead = 0]

\* C1: with a key configured and the stored selection empty, a query
\* invokes the general-knowledge answerer exactly once and does not invoke
\* retrieval, after any sequence of selection submissions.
C1_EmptySelectionGeneralOnly ==
    (Answered /\ GEMINI_API_KEY /\ selected_docs = <<>>)
        => (out.general = 1 /\ out.retrieval = 0)

\* C2: when every selected document failed extraction or had empty text,
\* the index after the failed select_docs call equals the index before it.
C2_EmptyCorpusPreservesIndex ==
    (Selected /\ out.status = "empty_corpus") => vectorstore = inp.before

\* C2, amended: when every selected document failed extraction or had
\* empty text, select_docs answers with its "No documents could be
\* processed" error and the index is cleared: there is no index after
\* the call, whatever the index was before it.
C2_EmptyCorpusClearsIndex ==
    (Selected /\ out.status = "empty_corpus")
        => /\ vectorstore = None
           /\ out.response.fixed # "redirect:/chat"

C2_Witness ==
    /\ Selected
    /\ out.status = "empty_corpus"
    /\ inp.before # None
    /\ vectorstore = None

\* C3: when the index construction call raises during a build, the
\* operation ends with an error response and the index keeps its previous
\* value: it is neither replaced by a partial index nor reset.
C3_EmbeddingFailureKeepsIndex ==
    (Selected /\ out.status = "embed_failed")
        => /\ vectorstore = inp.before
           /\ out.response.fixed # "redirect:/chat"

C3_Witness ==
    /\ Selected
    /\ out.status = "embed_failed"
    /\ inp.before # None
    /\ vectorstore = inp.before
    /\ out.documents # <<>>

\* C4: with a key configured and no index (no documents selected, or
\* documents selected but the build failed or was empty), the query handler
\* delegates to the general-knowledge answerer and the response holds its
\* answer.
C4_NoIndexDelegatesToGeneral ==
    (Answered /\ GEMINI_API_KEY /\ vectorstore = None)
        => /\ out.general = 1
           /\ out.response \in {Message(NO_DOCS, GeneralAnswer),
                                Message(NOT_READY, GeneralAnswer)}

\* C5: without a language-model key every query gets the fixed "not
\* configured" message, whatever the stored selection and index, and
\* neither retrieval nor the general-knowledge answerer is invoked.
C5_NoKeyNotConfigured ==
    (Answered /\ ~GEMINI_API_KEY)
        => /\ out.response = NOT_CONFIGURED
           /\ out.general = 0
           /\ out.retrieval = 0

C5_Witness ==
    /\ Answered
    /\ ~GEMINI_API_KEY
    /\ selected_docs # <<>>
    /\ out.response = NOT_CONFIGURED

\* C6: after the logout operation the stored selection is empty.
C6_LogoutClearsSelection ==
    lastOp = "logout" => selected_docs = <<>>

\* the retrieval answer of the last query, when retrieval returned one
Retrieved ==
    /\ Answered
    /\ GEMINI_API_KEY
    /\ vectorstore # None
    /\ inp.result # NoInput
    /\ ~inp.result.raised

\* C7: with a key and an index, if the retrieval answer contains the
\* marker "I don't know" or its trimmed length is below 50, the response is
\* the apology prefix followed by the general-knowledge answer, and the
\* general-knowledge answerer is invoked exactly once.
C7_LowConfidenceFallsBack ==
    (Retrieved /\ (inp.result.text.marker \/ inp.result.text.core < 50))
        => /\ out.general = 1
           /\ out.response = Message(APOLOGY, GeneralAnswer)

C7_Witness ==
    /\ Retrieved
    /\ ~inp.result.text.marker
    /\ inp.result.text.core < 50
    /\ inp.result.text.lead + inp.result.text.core >= 50
    /\ out.response = Message(APOLOGY, GeneralAnswer)

\* C8: with a key and an index, if the retrieval answer has length at
\* least 50 and does not contain the marker, the response is the retrieval
\* answer verbatim and the general-knowledge answerer is not invoked.
C8_LongAnswerVerbatim ==
    (Retrieved /\ ~inp.result.text.marker
               /\ inp.result.text.lead + inp.result.text.core >= 50)
        => /\ out.response = inp.result.text
           /\ out.general = 0

\* C8, amended: with a key and an index, if the retrieval answer has
\* trimmed length at least 50 and does not contain the marker, the response
\* is the retrieval answer verbatim and the general-knowledge answerer is
\* not invoked.
C8_LongTrimmedAnswerVerbatim ==
    (Retrieved /\ ~inp.result.text.marker /\ inp.result.text.core >= 50)
        => /\ out.response = inp.result.text
           /\ out.general = 0

C8_Witness ==
    /\ Retrieved
    /\ ~inp.result.text.marker
    /\ inp.result.text.core = 50
    /\ inp.result.text.lead = 1
    /\ out.response = inp.result.text

\* a selected document that extracts to non-whitespace text: its type is
\* supported, fetching and parsing it succeed, and its text is not blank
Supported == {GDOC, PLAIN, PDF, SLIDES, PPTX, PPT}

ExtractsToText(d) ==
    /\ Drive(d).mime \in Supported
    /\ Drive(d).fetch = "ok"
    /\ Drive(d).parse = "ok"
    /\ Drive(d).raw.core > 0

Sources(documents) == [i \in DOMAIN documents |-> documents[i].source]

\* C9: a document whose extraction fails, whose text is only whitespace
\* or whose type is unsupported is skipped without aborting the batch: the
\* corpus handed to the chunker is exactly the selected documents that
\* extracted to non-whitespace text, in selection order.
C9_CorpusIsExtractedSelection ==
    (Selected /\ out.looped)
        => Sources(out.documents) = SelectSeq(inp.selected_ids, ExtractsToText)

C9_Witness ==
    /\ Selected
    /\ out.looped
    /\ out.status = "built"
    /\ Len(inp.selected_ids) = 2
    /\ ~ExtractsToText(inp.selected_ids[1])
    /\ Sources(out.documents) = <<inp.selected_ids[2]>>

\* C10: the query operation never throws to the caller: in every state of
\* key, index and selection, and for every failure of retrieval or of the
\* general-knowledge call, it ends with a response carrying a string.
C10_QueryAlwaysResponds ==
    lastOp = "query" => (~out.threw /\ out.response # None)

C10_Witness ==
    /\ lastOp = "query"
    /\ inp.result = Raised
    /\ ~out.threw
    /\ out.response = Message(ERROR_OCCURRED, Fixed("str(e)"))

\* the index that a build from the stored selection gives
IndexOf(sel) == FAISS(split_documents(ProcessDocuments(sel)))

\* C12: between requests, if an index is present then it was built from
\* the currently stored selection, whatever the outcomes of the
\* select_docs calls so far.
C12_IndexMatchesSelection ==
    vectorstore # None => vectorstore = IndexOf(selected_docs)

\* an index value a thread has read: None, or a reference to an object
\* that holds everything it was built from
WholeIndex(v) ==
    v = None \/ (v.id \in 1..Len(heap) /\ Complete(heap[v.id]))

Observed(r) ==
    {v \in {reader[r].seen, reader[r].hold, reader[r].vs429} : v # NoInput}

\* C11: at most one index is current and a rebuild replaces it atomically:
\* under any interleaving of a select_docs rebuild with concurrent queries
\* the current index and every index a query reads or searches is a
\* completely built one (the old or the new), never one under
\* construction, and no step changes an index object once it is built.
C11_AtomicReplacement ==
    /\ [](/\ WholeIndex(vectorstore)
          /\ \A r \in Readers :
               /\ \A v \in Observed(r) : WholeIndex(v)
               /\ reader[r].route = "rag"
                    => reader[r].retrieved = heap[reader[r].hold.id].target)
    /\ [][\A i \in 1..Len(heap) :
            Complete(heap[i]) => heap'[i] = heap[i]]_vars

\* a query searches the old index while the rebuild is half way through
\* the new one
C11_Witness ==
    /\ builder.pc = "embedding"
    /\ heap[builder.id].docs # <<>>
    /\ ~Complete(heap[builder.id])
    /\ \E r \in Readers :
         /\ reader[r].pc = "done"
         /\ reader[r].route = "rag"
         /\ reader[r].hold = vectorstore
         /\ reader[r].hold # Ref(builder.id)

ServicesForIndex == vectorstore # None => (embeddings /\ llm)

\* C13: in every reachable state a present index implies that embeddings
\* and llm were initialized; consequently the query branch "Documents
\* selected but vectorstore not ready" is never taken.
C13_NotReadyUnreachable ==
    /\ ServicesForIndex
    /\ \A r \in Readers : reader[r].route # "not_ready"

\* C13, amended: in every reachable state a present index implies that
\* embeddings and llm were initialized; consequently a query takes the "not
\* ready" branch only when select_docs changed vectorstore or selected_docs
\* between the query's tests of them, never when the query runs alone.
C13_NotReadyOnlyByRace ==
    /\ ServicesForIndex
    /\ \A r \in Readers :
         reader[r].route = "not_ready"
            => \/ reader[r].vs429 # reader[r].seen
               \/ reader[r].sel431 # reader[r].sel429

C13_Witness ==
    /\ vectorstore # None
    /\ embeddings
    /\ llm
    /\ \E r \in Readers :
         /\ reader[r].route = "not_ready"
         /\ reader[r].seen = None
         /\ reader[r].vs429 = vectorstore

====
